---------------------------- MODULE Spec2Model ----------------------------
(***************************************************************************)
(* Harmony service selection (chooseServiceConfig and its filter stages),  *)
(* the service store and buildService, the local Docker adapter            *)
(* (LocalDockerService._invokeAsync) and the granule locator middleware    *)
(* (cmrGranuleLocator).                                                    *)
(*                                                                         *)
(* JavaScript values are represented as follows:                           *)
(*   - an undefined string (operation.outputFormat) is "", which is falsy  *)
(*     in the source's tests exactly as undefined is;                      *)
(*   - an undefined array (boundingRectangle, requestedMimeTypes,          *)
(*     capabilities.output_formats) carries a "has..." flag where the      *)
(*     source distinguishes it from an empty one, and is <<>> where the    *)
(*     source reads it through getIn(..., []) or a length test;            *)
(*   - a message is the sequence of the pieces its template literal        *)
(*     concatenates.                                                       *)
(***************************************************************************)
EXTENDS Integers, Sequences, FiniteSets, TLC

VARIABLES
    \* ---- selection (src/unnamed/part_000) ----
    operation,      \* the DataOperation passed to chooseServiceConfig (mutable)
    requested,      \* the operation as it was when the request was made
    context,        \* the RequestContext passed to chooseServiceConfig
    configs,        \* the candidate list passed to chooseServiceConfig
    noOpService,    \* the module-level noOpService object
    outcome,        \* what the call to chooseServiceConfig produced
    stageMatches,   \* value of the local `matches` after each completed stage
    pending,        \* per operation: a request (operation, context) awaiting selection
    held,           \* per operation: what its selection returned to the request
    chosen,         \* the serviceConfig passed to buildService
    service,        \* what the call to buildService produced
    envConfigs,     \* the descriptors services.yml configures for env.cmrEndpoint
    serviceConfigs, \* the module-level serviceConfigs (null until loaded)
    repeat,         \* what a second call to chooseServiceConfig produced
    \* ---- local Docker adapter (src/app/middleware/cmr-granule-locator.ts) ----
    child,          \* per operation: state of the child process / its events
    exitCode,       \* per operation: exit code reported with the exit event
    bound,          \* per operation: is the callback URL still bound
    inflight,       \* per operation: notifications posted, not yet received
    delivered,      \* per operation: notifications received at the callback URL
    thrown,         \* per operation: the exceptions it raised: "submit" out of
                    \* _invokeAsync, "uncaught" in the host's event loop
    host,           \* the host process: "up", or "ended" by an uncaught exception
    adapterConfig,  \* per operation: this.config.name of its adapter
    granules,       \* per operation: this.operation.sources[0].granules
    callback,       \* per operation: this.operation.callback, a URL written as
                    \* the sequence of its pieces, each occurrence of the text
                    \* "localhost" being a piece of its own
    \* ---- granule locator (src/app/middleware/cmr-granule-locator.ts:17-91) ----
    req,            \* the request: has it an operation, the operation's sources
    mwPc,           \* where cmrGranuleLocator is: notCalled, awaiting, done
    queries,        \* per source: state of the promise of its map callback
    cmrResponses,   \* per source: what the CMR answered to its query
    cmrResponse,    \* the variable cmrResponse the callbacks share (line 25)
    cmrHits,        \* operation.cmrHits (-1: not set)
    sourceGranules, \* per source: source.granules (<<>>: not assigned)
    rejection,      \* the error Promise.all rejected with ("": none)
    nextCalls       \* the arguments of every call of next, in order

storeVars == <<envConfigs, serviceConfigs>>
repeatVars == <<repeat>>
selVars ==
    <<operation, requested, context, configs, noOpService, outcome, stageMatches,
      pending, held, chosen, service, storeVars, repeatVars>>
opVars == <<adapterConfig, granules, callback>>
dockVars == <<child, exitCode, bound, inflight, delivered, thrown, host, opVars>>
midVars ==
    <<req, mwPc, queries, cmrResponses, cmrResponse, cmrHits, sourceGranules,
      rejection, nextCalls>>
vars == <<selVars, dockVars, midVars>>

---------------------------------------------------------------------------
(* Bounds of the model *)

MaxConfigs == 2     \* longest candidate list
MaxTypes == 2       \* longest list of acceptable media types
NumOps == 2         \* operations submitted through the local Docker adapter
MaxGranules == 6    \* longest granule list of an operation's first source
MaxHits == 2        \* largest hit count of a CMR response
MaxAtomGranules == 2 \* most granules in a CMR response

---------------------------------------------------------------------------
(* Generic sequence helpers *)

Range(s) == { s[i] : i \in DOMAIN s }

\* Injective sequences over S of length lo..hi
InjSeqs(S, lo, hi) ==
    UNION { { s \in [1..n -> S] : \A i, j \in 1..n : i # j => s[i] # s[j] } : n \in lo..hi }

---------------------------------------------------------------------------
(* Media types (util/content-negotiation, imported at part_000:8) *)

ConcreteFormats == { "image/png", "image/tiff" }
WildcardTypes == { "*", "*/*", "image/*" }
MediaTypes == ConcreteFormats \cup WildcardTypes

\* The part of a media type before the slash.
MimeMajor(m) ==
    CASE m = "image/png" -> "image"
      [] m = "image/tiff" -> "image"
      [] m = "image/*" -> "image"
      [] m = "application/json" -> "application"
      [] OTHER -> "*"

\* isMimeTypeAccepted(mimeType, acceptPattern): exact match, or a wildcard
\* pattern covering the type.
isMimeTypeAccepted(mimeType, pattern) ==
    \/ pattern = mimeType
    \/ pattern = "*"
    \/ pattern = "*/*"
    \/ pattern = "image/*" /\ MimeMajor(mimeType) = "image"

\* A text is the sequence of the pieces concatenated into it.
\* listToText (util/string, imported at part_000:10) of a list of texts:
\* "a", "a and b", "a, b, and c".
RECURSIVE CommaJoin(_)
CommaJoin(items) ==
    IF Len(items) = 1 THEN <<", and ">> \o items[1]
    ELSE <<", ">> \o items[1] \o CommaJoin(Tail(items))

listToText(items) ==
    CASE Len(items) = 0 -> <<>>
      [] Len(items) = 1 -> items[1]
      [] Len(items) = 2 -> items[1] \o <<" and ">> \o items[2]
      [] OTHER -> items[1] \o CommaJoin(Tail(items))

---------------------------------------------------------------------------
(* Selection: src/unnamed/part_000 *)

\* getIn(config, 'capabilities.output_formats', [])
supportedFormatsOf(config) == config.output_formats

\* The error of reading .includes of the undefined `collections` of a
\* descriptor that declares none (line 102)
CollectionsTypeError == "TypeError: Cannot read property 'includes' of undefined"

\* does isCollectionMatch raise: `every` calls its callback for the first
\* source, the callback reads serviceConfig.collections.includes
isCollectionMatchRaises(op, serviceConfig) ==
    Len(op.sources) > 0 /\ ~serviceConfig.hasCollections

isCollectionMatch(op, serviceConfig) ==
    \A i \in DOMAIN op.sources : op.sources[i].collection \in serviceConfig.collections

\* does the config declare a format the given format/pattern accepts
DeclaresAccepted(config, format) ==
    \E i \in DOMAIN supportedFormatsOf(config) :
        isMimeTypeAccepted(supportedFormatsOf(config)[i], format)

selectServicesForFormat(format, cfgs) ==
    LET Keep(config) == DeclaresAccepted(config, format)
    IN SelectSeq(cfgs, Keep)

\* Mutant: takes the first format services[0] declares, accepted or not
FirstDeclaredFormat(config, mimeType) ==
    IF Len(supportedFormatsOf(config)) > 0 THEN supportedFormatsOf(config)[1] ELSE ""

\* supportedFormats.find((f) => isMimeTypeAccepted(f, mimeType)) on services[0]
FirstAcceptedFormat(config, mimeType) ==
    LET Hit(f) == isMimeTypeAccepted(f, mimeType)
        hits == SelectSeq(supportedFormatsOf(config), Hit)
    IN IF Len(hits) > 0 THEN hits[1] ELSE ""

\* the body of the for loop of selectFormat, from the i-th mime type on
RECURSIVE SelectFormatLoop(_, _, _)
SelectFormatLoop(types, i, cfgs) ==
    IF i > Len(types) THEN ""
    ELSE LET services == selectServicesForFormat(types[i], cfgs)
             outputFormat == IF Len(services) > 0
                             THEN FirstAcceptedFormat(services[1], types[i])
                             ELSE ""
         IN IF outputFormat # "" THEN outputFormat
            ELSE SelectFormatLoop(types, i + 1, cfgs)

\* Mutant: every context counts as listing acceptable types
HasRequestedMimeTypesAlways(ctx) == TRUE

\* context.requestedMimeTypes && context.requestedMimeTypes.length > 0
\* (only evaluated on a defined context)
HasRequestedMimeTypes(ctx) ==
    ctx.hasMimeTypes /\ Len(ctx.requestedMimeTypes) > 0

\* Mutant: the context's acceptable types are consulted before the
\* operation's own format
selectFormatContextFirst(op, ctx, cfgs) ==
    IF ctx.defined /\ HasRequestedMimeTypes(ctx)
    THEN SelectFormatLoop(ctx.requestedMimeTypes, 1, cfgs)
    ELSE op.outputFormat

selectFormat(op, ctx, cfgs) ==
    IF op.outputFormat = "" /\ HasRequestedMimeTypes(ctx)
    THEN SelectFormatLoop(ctx.requestedMimeTypes, 1, cfgs)
    ELSE op.outputFormat

requiresVariableSubsetting(op) ==
    \E i \in DOMAIN op.sources : Len(op.sources[i].variables) > 0

supportsVariableSubsetting(cfgs) ==
    LET Keep(config) == config.variable
    IN SelectSeq(cfgs, Keep)

requiresSpatialSubsetting(op) == op.hasBoundingRectangle

supportsSpatialSubsetting(cfgs) ==
    LET Keep(config) == config.bbox
    IN SelectSeq(cfgs, Keep)

\* A filter stage yields the matches it returns and the operation as it
\* leaves it, or signals UnsupportedOperation (unsupported = TRUE), or raises
\* another error (error # "").
StageResult(unsupported, matches, op) ==
    [unsupported |-> unsupported, error |-> "", matches |-> matches, operation |-> op]

StageError(error, op) ==
    [unsupported |-> FALSE, error |-> error, matches |-> <<>>, operation |-> op]

filterCollectionMatches(op, ctx, cfgs) ==
    IF \E i \in DOMAIN cfgs : isCollectionMatchRaises(op, cfgs[i])
    THEN StageError(CollectionsTypeError, op)
    ELSE LET Keep(config) == isCollectionMatch(op, config)
             matches == SelectSeq(cfgs, Keep)
         IN StageResult(Len(matches) = 0, matches, op)

filterVariableSubsettingMatches(op, ctx, cfgs) ==
    LET matches == IF requiresVariableSubsetting(op)
                   THEN supportsVariableSubsetting(cfgs)
                   ELSE cfgs
    IN StageResult(Len(matches) = 0, matches, op)

filterOutputFormatMatches(op, ctx, cfgs) ==
    IF op.outputFormat # "" \/ (ctx.defined /\ HasRequestedMimeTypes(ctx))
    THEN LET outputFormat == selectFormat(op, ctx, cfgs)
             op2 == IF outputFormat # ""
                    THEN [op EXCEPT !.outputFormat = outputFormat]
                    ELSE op
             services == IF outputFormat # ""
                         THEN selectServicesForFormat(outputFormat, cfgs)
                         ELSE <<>>
         IN StageResult(Len(services) = 0, services, op2)
    ELSE StageResult(Len(cfgs) = 0, cfgs, op)

filterSpatialSubsettingMatches(op, ctx, cfgs) ==
    LET services == IF requiresSpatialSubsetting(op)
                    THEN supportsSpatialSubsetting(cfgs)
                    ELSE cfgs
    IN StageResult(Len(services) = 0, services, op)

\* The outcome of unsupportedCombinationMessage: the message, or the
\* TypeError of reading requestedMimeTypes of an undefined context.
unsupportedCombinationMessage(op, ctx) ==
    IF op.outputFormat = "" /\ ~ctx.defined
    THEN [typeError |-> TRUE, message |-> <<>>]
    ELSE
    LET collections == [i \in DOMAIN op.sources |-> <<op.sources[i].collection>>]
        formats0 == IF op.outputFormat # "" THEN <<op.outputFormat>>
                    ELSE ctx.requestedMimeTypes
        NotWildcard(f) == f # "*" /\ f # "*/*"
        formats == SelectSeq(formats0, NotWildcard)
        opt1 == IF requiresVariableSubsetting(op) THEN << <<"variable subsetting">> >> ELSE <<>>
        opt2 == IF requiresSpatialSubsetting(op) THEN << <<"spatial subsetting">> >> ELSE <<>>
        opt3 == IF Len(formats) > 0
                THEN << <<"reformatting to ">>
                        \o listToText([i \in DOMAIN formats |-> <<formats[i]>>]) >>
                ELSE <<>>
        requestedOptions == opt1 \o opt2 \o opt3
        message == IF Len(requestedOptions) > 0
                   THEN <<"the requested combination of operations: ">>
                        \o listToText(requestedOptions) \o <<" on ">>
                        \o listToText(collections) \o <<" is unsupported">>
                   ELSE <<"no operations can be performed on ">>
                        \o listToText(collections)
    IN [typeError |-> FALSE, message |-> message]

\* operationFilterFns[i](op, ctx, cfgs)
ApplyFilter(i, op, ctx, cfgs) ==
    CASE i = 1 -> filterCollectionMatches(op, ctx, cfgs)
      [] i = 2 -> filterVariableSubsettingMatches(op, ctx, cfgs)
      [] i = 3 -> filterOutputFormatMatches(op, ctx, cfgs)
      [] OTHER -> filterSpatialSubsettingMatches(op, ctx, cfgs)

NumFilters == 4

\* One iteration of the for loop of chooseServiceConfig: `matches` and the
\* operation after filter i, or the error the filter raised. trace is
\* the value of `matches` after each filter that returned.
FilterStep(i, st, ctx) ==
    LET r == ApplyFilter(i, st.operation, ctx, st.matches)
        raised == r.unsupported \/ r.error # ""
    IN [unsupported |-> r.unsupported,
        error |-> r.error,
        matches |-> IF raised THEN st.matches ELSE r.matches,
        operation |-> r.operation,
        trace |-> IF raised THEN st.trace ELSE Append(st.trace, r.matches)]

\* The for loop from the i-th filter on. (A value is bound through a
\* singleton set where it is used more than once, so it is computed once.)
RECURSIVE RunFilters(_, _, _)
RunFilters(i, st, ctx) ==
    IF i > NumFilters \/ st.unsupported \/ st.error # "" THEN st
    ELSE CHOOSE out \in { RunFilters(i + 1, next, ctx) :
                            next \in { FilterStep(i, st, ctx) } } : TRUE

\* Mutant: picks the last remaining candidate
LastMatch(matches) == matches[Len(matches)]

\* serviceConfig = matches[0] (line 380)
FirstMatch(matches) == matches[1]

\* Mutant: the catch block treats every error as UnsupportedOperation
IsAnyError(e) == TRUE

\* e instanceof UnsupportedOperation (line 382)
IsUnsupportedOperation(e) == e = "UnsupportedOperation"

\* Mutant: the catch block appends the explanation to the one noOpService
\* already carries
FinishChoiceAppending(run, ctx, noOpMessage) ==
    IF ~run.unsupported /\ run.error = ""
    THEN [status |-> "returned", serviceConfig |-> FirstMatch(run.matches).name, error |-> "",
          operation |-> run.operation, message |-> noOpMessage, trace |-> run.trace]
    ELSE IF run.error # ""
    THEN [status |-> "threw", serviceConfig |-> "", error |-> run.error,
          operation |-> run.operation, message |-> noOpMessage, trace |-> run.trace]
    ELSE LET msg == unsupportedCombinationMessage(run.operation, ctx)
         IN IF msg.typeError
            THEN [status |-> "threw", serviceConfig |-> "", error |-> "TypeError",
                  operation |-> run.operation, message |-> noOpMessage,
                  trace |-> run.trace]
            ELSE [status |-> "returned", serviceConfig |-> "noOpService", error |-> "",
                  operation |-> run.operation, message |-> noOpMessage \o msg.message,
                  trace |-> run.trace]

\* The end of chooseServiceConfig: matches[0], or the catch block, which
\* rethrows what is not an UnsupportedOperation (line 388).
FinishChoice(run, ctx, noOpMessage) ==
    IF ~run.unsupported /\ run.error = ""
    THEN [status |-> "returned", serviceConfig |-> FirstMatch(run.matches).name, error |-> "",
          operation |-> run.operation, message |-> noOpMessage, trace |-> run.trace]
    ELSE IF ~IsUnsupportedOperation(IF run.unsupported THEN "UnsupportedOperation"
                                    ELSE run.error)
    THEN [status |-> "threw", serviceConfig |-> "", error |-> run.error,
          operation |-> run.operation, message |-> noOpMessage, trace |-> run.trace]
    ELSE LET msg == unsupportedCombinationMessage(run.operation, ctx)
         IN IF msg.typeError
            THEN [status |-> "threw", serviceConfig |-> "", error |-> "TypeError",
                  operation |-> run.operation, message |-> noOpMessage,
                  trace |-> run.trace]
            ELSE [status |-> "returned", serviceConfig |-> "noOpService", error |-> "",
                  operation |-> run.operation, message |-> msg.message,
                  trace |-> run.trace]

\* What a call chooseServiceConfig(op, ctx, cfgs) does: the value returned
\* (the name of the descriptor object) or the error thrown, the operation and
\* the noOpService message as the call leaves them.
chooseServiceConfig(op, ctx, cfgs, noOpMessage) ==
    LET start == [unsupported |-> FALSE, error |-> "", matches |-> cfgs,
                  operation |-> op, trace |-> <<>>]
    IN CHOOSE res \in { FinishChoice(run, ctx, noOpMessage) :
                          run \in { RunFilters(1, start, ctx) } } : TRUE

---------------------------------------------------------------------------
(* Requests the selection is run on *)

Collections == { "C1", "C2" }

\* The descriptors candidate lists are drawn from (name, served collections,
\* capabilities.output_formats, capabilities.subsetting.variable / .bbox).
Descriptor(name, collections, formats, variable, bbox) ==
    [name |-> name, hasCollections |-> TRUE, collections |-> collections,
     output_formats |-> formats, variable |-> variable, bbox |-> bbox]

ServiceCatalog ==
    { Descriptor("tiff-bbox", {"C1"}, <<"image/tiff">>, FALSE, TRUE),
      Descriptor("png-tiff-var", {"C1", "C2"}, <<"image/png", "image/tiff">>, TRUE, FALSE),
      Descriptor("png", {"C1"}, <<"image/png">>, FALSE, FALSE),
      Descriptor("tiff-png-var-bbox", {"C1", "C2"}, <<"image/tiff", "image/png">>, TRUE, TRUE),
      Descriptor("no-formats", {"C2"}, <<>>, TRUE, TRUE) }

ConfigLists == InjSeqs(ServiceCatalog, 0, MaxConfigs)

SourceLists ==
    UNION { { [i \in DOMAIN cs |-> [collection |-> cs[i], variables |-> vs[i]]] :
                vs \in [DOMAIN cs -> { <<>>, <<"V1">> }] } :
            cs \in InjSeqs(Collections, 1, Cardinality(Collections)) }

Operations ==
    [sources : SourceLists, outputFormat : {""} \cup ConcreteFormats,
     hasBoundingRectangle : BOOLEAN]

Contexts ==
    { [defined |-> FALSE, hasMimeTypes |-> FALSE, requestedMimeTypes |-> <<>>],
      [defined |-> TRUE, hasMimeTypes |-> FALSE, requestedMimeTypes |-> <<>>] }
    \cup { [defined |-> TRUE, hasMimeTypes |-> TRUE, requestedMimeTypes |-> t] :
            t \in InjSeqs(MediaTypes, 0, MaxTypes) }

NoOutcome == [status |-> "none", serviceConfig |-> "", error |-> ""]

\* noOpService as declared (part_000:195-199): no message yet
NoOpInit ==
    [name |-> "noOpService", type |-> "noOp",
     output_formats |-> <<"application/json">>, hasMessage |-> FALSE, message |-> <<>>]

InitSelection ==
    /\ operation \in Operations
    /\ requested = operation
    /\ context \in Contexts
    /\ configs \in ConfigLists
    /\ noOpService = NoOpInit
    /\ outcome = NoOutcome
    /\ stageMatches = <<>>

\* One call chooseServiceConfig(operation, context, configs)
ChooseServiceConfig ==
    /\ outcome.status = "none"
    /\ \E r \in { chooseServiceConfig(operation, context, configs, noOpService.message) } :
          /\ operation' = r.operation
          /\ outcome' = [status |-> r.status, serviceConfig |-> r.serviceConfig,
                         error |-> r.error]
          /\ noOpService' = IF r.serviceConfig = "noOpService"
                            THEN [noOpService EXCEPT !.hasMessage = TRUE,
                                                     !.message = r.message]
                            ELSE noOpService
          /\ stageMatches' = r.trace
    /\ UNCHANGED <<requested, context, configs, pending, held, chosen, service>>
    /\ UNCHANGED storeVars
    /\ UNCHANGED repeatVars
    /\ UNCHANGED dockVars
    /\ UNCHANGED midVars

---------------------------------------------------------------------------
(* Local Docker adapter: src/app/middleware/cmr-granule-locator.ts:95-185 *)

Ops == 1..NumOps

\* The notification the child posts itself, and the one childProcessAborted
\* posts (querystring error=...).
ChildNotification == [from |-> "child", error |-> ""]
AbortNotification ==
    [from |-> "adapter", error |-> "Service request failed with an unknown error."]

\* (code, signal) of an exit event: exit 0, exit 1, killed by a signal
\* (code null, written -1).
ExitEvents ==
    { [code |-> 0, signal |-> ""], [code |-> 1, signal |-> ""],
      [code |-> -1, signal |-> "SIGKILL"] }

\* How launching the child turns out:
\*   runs          the child is spawned and the exit listener registered;
\*   spawnError    spawn cannot find the executable (ENOENT): it returns a
\*                 child with its streams and reports the failure later as
\*                 an 'error' event;
\*   spawnNoStdio  spawn runs out of file descriptors (EMFILE, ENFILE): it
\*                 returns a child without streams, so logProcessOutput
\*                 (line 174, child.stdout of lines 110-120) throws a
\*                 TypeError out of _invokeAsync before the exit listener
\*                 is registered, and the 'error' event is still to come;
\*   buildThrows   building the arguments throws (params.env undefined,
\*                 serialize() throws) before spawn is reached.
LaunchOutcomes == { "runs", "spawnError", "spawnNoStdio", "buildThrows" }

\* Everything posted to the callback URL of operation o so far
Posted(o) == inflight[o] \o delivered[o]

CountFrom(notes, who) == Cardinality({ i \in DOMAIN notes : notes[i].from = who })

\* isUrlBound(callbackUrl) of backends/service-response
isUrlBound(o) == bound[o]

\* childProcessAborted(callbackUrl): posts the failure, does not await it
childProcessAborted(o) ==
    inflight' = [inflight EXCEPT ![o] = Append(@, AbortNotification)]

\* Mutant: the exit handler reports every exit, bound or not
ExitNeedsAbortAlways(o) == TRUE

\* the condition of the exit handler (line 178)
ExitNeedsAbort(o) == isUrlBound(o)

\* the descriptor name the hack of lines 153-155 tests for
PodaacSubsetter == "podaac-cloud/l2-subsetter-service"

\* the argument of slice (line 154)
SliceFrom == 5

\* array.slice(from): the elements from index `from` (counted from 0) on
slice(array, from) == SubSeq(array, from + 1, Len(array))

\* process.env.CALLBACK_HOST || 'host.docker.internal' (line 160), with
\* CALLBACK_HOST not set in the environment
CallbackHost == "host.docker.internal"

\* str.replace(pattern, replacement) with a string pattern: the first
\* occurrence of the pattern, wherever in the string it is, is replaced and
\* the later ones are kept; a string without the pattern is returned as it is
replace(str, pattern, replacement) ==
    LET occurrences == { k \in 1..Len(str) : str[k] = pattern }
    IN IF occurrences = {}
       THEN str
       ELSE LET first == CHOOSE k \in occurrences : \A j \in occurrences : k <= j
            IN [str EXCEPT ![first] = replacement]

\* this.operation.callback.replace('localhost', ...) of line 160
ReplaceLocalhost(url) == replace(url, "localhost", CallbackHost)

\* _invokeAsync: the hack, the rewriting of the callback, then building the
\* arguments, spawn, logProcessOutput and the registration of the exit
\* handler, as far as the launch lets it get; what it throws leaves it with
\* the operation already changed
InvokeAsync(o) ==
    /\ host = "up"
    /\ child[o] = "unsubmitted"
    /\ \E launch \in LaunchOutcomes :
        /\ child' = [child EXCEPT ![o] =
                        CASE launch = "runs" -> "running"
                          [] launch \in { "spawnError", "spawnNoStdio" } -> "spawnFailed"
                          [] OTHER -> "gone"]
        /\ thrown' = [thrown EXCEPT ![o] =
                        IF launch \in { "buildThrows", "spawnNoStdio" }
                        THEN @ \cup { "submit" } ELSE @]
    /\ granules' = [granules EXCEPT ![o] =
                        IF adapterConfig[o] = PodaacSubsetter THEN slice(@, SliceFrom) ELSE @]
    /\ callback' = [callback EXCEPT ![o] = ReplaceLocalhost(@)]
    /\ UNCHANGED <<exitCode, bound, inflight, delivered, host, adapterConfig>>
    /\ UNCHANGED selVars
    /\ UNCHANGED midVars

\* The child's 'error' event: _invokeAsync registers a listener for 'exit'
\* only (lines 176-181), so emitting 'error' throws in the host's event loop.
\* Nothing catches it: the exception is uncaught and ends the host process,
\* with the handlers of every operation. No 'exit' event is emitted for a
\* child that was never spawned.
ErrorEvent(o) ==
    /\ host = "up"
    /\ child[o] = "spawnFailed"
    /\ thrown' = [thrown EXCEPT ![o] = @ \cup { "uncaught" }]
    /\ child' = [child EXCEPT ![o] = "gone"]
    /\ host' = "ended"
    /\ UNCHANGED <<exitCode, bound, inflight, delivered>>
    /\ UNCHANGED opVars
    /\ UNCHANGED selVars
    /\ UNCHANGED midVars

\* The running child posts its completion notification (once); a post to
\* a host that has ended is refused and reaches nobody
ChildNotify(o) ==
    /\ host = "up"
    /\ child[o] = "running"
    /\ CountFrom(Posted(o), "child") = 0
    /\ inflight' = [inflight EXCEPT ![o] = Append(@, ChildNotification)]
    /\ UNCHANGED <<child, exitCode, bound, delivered, thrown, host>>
    /\ UNCHANGED opVars
    /\ UNCHANGED selVars
    /\ UNCHANGED midVars

\* The child process ends, whether the host is still there or not; its exit
\* event is now pending in the host
ChildExit(o) ==
    /\ child[o] = "running"
    /\ \E e \in ExitEvents : exitCode' = [exitCode EXCEPT ![o] = e]
    /\ child' = [child EXCEPT ![o] = "exited"]
    /\ UNCHANGED <<bound, inflight, delivered, thrown, host>>
    /\ UNCHANGED opVars
    /\ UNCHANGED selVars
    /\ UNCHANGED midVars

\* child.on('exit', ...) (lines 176-181)
ExitHandler(o) ==
    /\ host = "up"
    /\ child[o] = "exited"
    /\ child' = [child EXCEPT ![o] = "reaped"]
    /\ IF ExitNeedsAbort(o) THEN childProcessAborted(o) ELSE UNCHANGED inflight
    /\ UNCHANGED <<exitCode, bound, delivered, thrown, host>>
    /\ UNCHANGED opVars
    /\ UNCHANGED selVars
    /\ UNCHANGED midVars

\* The host receives one of the posts made to the callback URL (in any
\* order); if the URL is still bound its callback handles the notification
\* and unbinds the URL, otherwise the post arrives at a URL nobody serves.
Receive(o) ==
    /\ host = "up"
    /\ \E i \in DOMAIN inflight[o] :
        /\ delivered' = [delivered EXCEPT ![o] = Append(@, inflight[o][i])]
        /\ inflight' = [inflight EXCEPT ![o] =
                           SubSeq(@, 1, i - 1) \o SubSeq(@, i + 1, Len(@))]
    /\ bound' = [bound EXCEPT ![o] = FALSE]
    /\ UNCHANGED <<child, exitCode, thrown, host>>
    /\ UNCHANGED opVars
    /\ UNCHANGED selVars
    /\ UNCHANGED midVars

NoExitEvent == [code |-> 0, signal |-> "none"]

\* nothing submitted yet
InitChildren ==
    /\ child = [o \in Ops |-> "unsubmitted"]
    /\ exitCode = [o \in Ops |-> NoExitEvent]
    /\ bound = [o \in Ops |-> TRUE]
    /\ inflight = [o \in Ops |-> <<>>]
    /\ delivered = [o \in Ops |-> <<>>]
    /\ thrown = [o \in Ops |-> {}]
    /\ host = "up"

InitDockerIdle ==
    /\ InitChildren
    /\ adapterConfig = [o \in Ops |-> "harmony/example"]
    /\ granules = [o \in Ops |-> <<1>>]
    /\ callback = [o \in Ops |-> <<"http://", "localhost", ":3000/service/x">>]

\* The adapter alone, on operations whose selection is not in question
IdleOperation ==
    [sources |-> <<[collection |-> "C1", variables |-> <<>>]>>,
     outputFormat |-> "", hasBoundingRectangle |-> FALSE]

\* a context that lists no acceptable media types
PlainContext == [defined |-> TRUE, hasMimeTypes |-> FALSE, requestedMimeTypes |-> <<>>]

\* nothing returned to the request yet
NoneHeld == [status |-> "none", serviceConfig |-> "", explanation |-> <<>>]

\* no request other than `operation` is in progress
InitRequestsIdle ==
    /\ pending = [o \in Ops |-> [operation |-> IdleOperation, context |-> PlainContext]]
    /\ held = [o \in Ops |-> NoneHeld]

\* a descriptor of an HTTP backend, and no call to buildService yet
IdleConfig ==
    [name |-> "idle",
     type |-> [name |-> "http", synchronous_only |-> "undefined",
               single_granule_requests |-> "undefined"]]

NotBuilt ==
    [status |-> "none", class |-> "", base |-> "", config |-> "",
     operation |-> IdleOperation, error |-> ""]

InitBuildIdle ==
    /\ chosen = IdleConfig
    /\ service = NotBuilt

\* a services.yml that configures no descriptor, loaded
InitStoreIdle ==
    /\ envConfigs = <<>>
    /\ serviceConfigs = [loaded |-> TRUE, list |-> <<>>]

\* no second call to chooseServiceConfig yet
NotRepeated ==
    [status |-> "none", serviceConfig |-> "", error |-> "",
     firstMessage |-> <<>>, firstFormat |-> ""]

InitRepeatIdle == repeat = NotRepeated

\* what the CMR has not answered yet
NoResponse == [error |-> "", hits |-> 0, granules |-> <<>>]

\* a request without operation, the granule locator not called on it
InitMiddlewareIdle ==
    /\ req = [hasOperation |-> FALSE, sources |-> <<>>]
    /\ mwPc = "notCalled"
    /\ queries = <<>>
    /\ cmrResponses = <<>>
    /\ cmrResponse = NoResponse
    /\ cmrHits = -1
    /\ sourceGranules = <<>>
    /\ rejection = ""
    /\ nextCalls = <<>>

Init ==
    /\ InitSelection
    /\ InitRequestsIdle
    /\ InitBuildIdle
    /\ InitStoreIdle
    /\ InitRepeatIdle
    /\ InitMiddlewareIdle
    /\ InitDockerIdle

Next == ChooseServiceConfig

Spec == Init /\ [][Next]_vars

\* A descriptor configured without a `collections` key
NoCollectionsDescriptor ==
    [name |-> "no-collections", hasCollections |-> FALSE, collections |-> {},
     output_formats |-> <<"image/png">>, variable |-> TRUE, bbox |-> TRUE]

\* Candidate lists in which such a descriptor occurs
MalformedLists ==
    { cfgs \in InjSeqs(ServiceCatalog \cup {NoCollectionsDescriptor}, 1, MaxConfigs) :
        \E i \in DOMAIN cfgs : cfgs[i] = NoCollectionsDescriptor }

InitMalformed ==
    /\ InitRepeatIdle
    /\ InitMiddlewareIdle
    /\ operation \in Operations
    /\ requested = operation
    /\ context \in Contexts
    /\ configs \in MalformedLists
    /\ noOpService = NoOpInit
    /\ outcome = NoOutcome
    /\ stageMatches = <<>>
    /\ InitRequestsIdle
    /\ InitBuildIdle
    /\ InitStoreIdle
    /\ InitDockerIdle

\* The selection run on a candidate list holding a malformed descriptor
SpecMalformed == InitMalformed /\ [][Next]_vars

InitDocker ==
    /\ InitRepeatIdle
    /\ InitMiddlewareIdle
    /\ InitDockerIdle
    /\ InitRequestsIdle
    /\ InitBuildIdle
    /\ InitStoreIdle
    /\ operation = IdleOperation
    /\ requested = IdleOperation
    /\ context = PlainContext
    /\ configs = <<>>
    /\ noOpService = NoOpInit
    /\ outcome = NoOutcome
    /\ stageMatches = <<>>

NextDocker ==
    \/ \E o \in Ops : InvokeAsync(o)
    \/ \E o \in Ops : ErrorEvent(o)
    \/ \E o \in Ops : ChildNotify(o)
    \/ \E o \in Ops : ChildExit(o)
    \/ \E o \in Ops : ExitHandler(o)
    \/ \E o \in Ops : Receive(o)

\* While it is up, the host's event loop dispatches every pending event, and
\* a post that was made reaches the host.
FairDocker ==
    \A o \in Ops :
        /\ WF_vars(ErrorEvent(o))
        /\ WF_vars(ExitHandler(o))
        /\ WF_vars(Receive(o))

SpecLocalDocker == InitDocker /\ [][NextDocker]_vars /\ FairDocker

---------------------------------------------------------------------------
(* Selections of several requests in one process: every call uses the one  *)
(* module-level noOpService object (part_000:195-199, 385-386)             *)

\* Requests in progress at the same time: one source each, no format named
ConcurrentOperations ==
    { [sources |-> <<[collection |-> c, variables |-> v]>>,
       outputFormat |-> "", hasBoundingRectangle |-> FALSE] :
        c \in Collections, v \in { <<>>, <<"V1">> } }

InitConcurrent ==
    /\ InitRepeatIdle
    /\ InitMiddlewareIdle
    /\ pending \in [Ops -> [operation : ConcurrentOperations, context : {PlainContext}]]
    /\ held = [o \in Ops |-> NoneHeld]
    /\ configs \in ConfigLists
    /\ noOpService = NoOpInit
    /\ operation = IdleOperation
    /\ requested = IdleOperation
    /\ context = PlainContext
    /\ outcome = NoOutcome
    /\ stageMatches = <<>>
    /\ InitBuildIdle
    /\ InitStoreIdle
    /\ InitDockerIdle

\* The call chooseServiceConfig(operation, context, configs) made for request
\* o. What the request holds afterwards is the object returned: on the
\* fallback path that is the noOpService object itself (line 386), not a copy.
\* explanation records the message that object carried when it was returned.
SelectFor(o) ==
    /\ held[o].status = "none"
    /\ \E r \in { chooseServiceConfig(pending[o].operation, pending[o].context,
                                      configs, noOpService.message) } :
          /\ pending' = [pending EXCEPT ![o].operation = r.operation]
          /\ held' = [held EXCEPT ![o] =
                         [status |-> r.status, serviceConfig |-> r.serviceConfig,
                          explanation |-> IF r.serviceConfig = "noOpService"
                                          THEN r.message ELSE <<>>]]
          /\ noOpService' = IF r.serviceConfig = "noOpService"
                            THEN [noOpService EXCEPT !.hasMessage = TRUE,
                                                     !.message = r.message]
                            ELSE noOpService
    /\ UNCHANGED <<operation, requested, context, configs, outcome, stageMatches,
                   chosen, service>>
    /\ UNCHANGED storeVars
    /\ UNCHANGED repeatVars
    /\ UNCHANGED dockVars
    /\ UNCHANGED midVars

NextConcurrent == \E o \in Ops : SelectFor(o)

SpecConcurrent == InitConcurrent /\ [][NextConcurrent]_vars

---------------------------------------------------------------------------
(* Claims about concurrent selections, checked under SpecConcurrent *)

\* request o holds the no-op descriptor
HoldsNoOp(o) == held[o].status = "returned" /\ held[o].serviceConfig = "noOpService"

\* the explanation that the descriptor request o holds carries now
ExplanationHeld(o) == noOpService.message

\* C12: if the selection for request A fell back, then after the selection
\* for any other request B has run, the descriptor A holds still carries the
\* explanation computed for A.
C12_FallbackExplanationNotShared ==
    \A a \in Ops : HoldsNoOp(a) => ExplanationHeld(a) = held[a].explanation

---------------------------------------------------------------------------
(* buildService (part_000:59-87) *)

\* The keys of the object literal serviceTypesToServiceClasses (lines 59-64)
RegisteredTypeNames == { "http", "queue", "argo", "noOp" }

\* The function-valued members a plain object inherits from Object.prototype
\* other than constructor; none of them can be called with new
InheritedMethods ==
    { "toString", "toLocaleString", "valueOf", "hasOwnProperty", "isPrototypeOf",
      "propertyIsEnumerable", "__defineGetter__", "__defineSetter__",
      "__lookupGetter__", "__lookupSetter__" }

\* serviceTypesToServiceClasses[typeName]: the class registered under the
\* type name; for a name that is not a key of the literal, what the object
\* inherits under that name (the Object function for "constructor",
\* Object.prototype for "__proto__", a method named like the key), and ""
\* (undefined) when there is nothing.
serviceTypesToServiceClasses(typeName) ==
    CASE typeName = "http" -> "HttpService"
      [] typeName = "queue" -> "MessageQueueService"
      [] typeName = "argo" -> "ArgoService"
      [] typeName = "noOp" -> "NoOpService"
      [] typeName = "constructor" -> "Object"
      [] typeName = "__proto__" -> "(object) [object Object]"
      [] typeName \in InheritedMethods -> typeName
      [] OTHER -> ""

\* can the value be called with new: the four classes and Object can, an
\* inherited method or Object.prototype cannot
IsConstructor(ServiceClass) ==
    ServiceClass \in { "HttpService", "MessageQueueService", "ArgoService",
                       "NoOpService", "Object" }

\* A flag of serviceConfig.type as services.yml gives it: absent, false, true
FlagValues == { "undefined", "false", "true" }

\* the truthiness the || of line 83 tests
Truthy(flag) == flag = "true"

\* Mutant: only synchronous_only asks for the Asynchronizer
NeedsAsynchronizerSyncOnly(type) == Truthy(type.synchronous_only)

\* serviceConfig.type.synchronous_only || serviceConfig.type.single_granule_requests
NeedsAsynchronizer(type) ==
    Truthy(type.synchronous_only) \/ Truthy(type.single_granule_requests)

\* the negation of !ServiceClass (line 79)
IsClass(ServiceClass) == ServiceClass # ""

\* new class(base?, serviceConfig, operation): the object constructed, by its
\* class and the arguments given to the constructor
Constructed(class, base, serviceConfig, op) ==
    [status |-> "returned", class |-> class, base |-> base,
     config |-> serviceConfig.name, operation |-> op, error |-> ""]

buildService(serviceConfig, op) ==
    LET ServiceClass == serviceTypesToServiceClasses(serviceConfig.type.name)
    IN IF ~IsClass(ServiceClass)
       THEN [status |-> "threw", class |-> "", base |-> "", config |-> "",
             operation |-> op, error |-> "NotFoundError"]
       ELSE IF NeedsAsynchronizer(serviceConfig.type)
       THEN Constructed("AsynchronizerService", ServiceClass, serviceConfig, op)
       ELSE IF IsConstructor(ServiceClass)
       THEN Constructed(ServiceClass, "", serviceConfig, op)
       ELSE [status |-> "threw", class |-> "", base |-> "", config |-> "",
             operation |-> op, error |-> "TypeError"]

\* The type names descriptors are configured with: the four registered ones,
\* the local Docker adapter's, one no adapter exists for, and three that are
\* not keys of the literal but name members of Object.prototype
TypeNames ==
    { "http", "queue", "argo", "noOp", "docker", "lambda",
      "constructor", "toString", "__proto__" }

BuildConfigs ==
    { [name |-> n, type |-> t] :
        n \in { "svc-1", "svc-2" },
        t \in [name : TypeNames, synchronous_only : FlagValues,
               single_granule_requests : FlagValues] }

InitBuild ==
    /\ InitRepeatIdle
    /\ InitMiddlewareIdle
    /\ chosen \in BuildConfigs
    /\ service = NotBuilt
    /\ InitStoreIdle
    /\ operation \in ConcurrentOperations
    /\ requested = operation
    /\ context = PlainContext
    /\ configs = <<>>
    /\ noOpService = NoOpInit
    /\ outcome = NoOutcome
    /\ stageMatches = <<>>
    /\ InitRequestsIdle
    /\ InitDockerIdle

\* One call buildService(chosen, operation)
BuildService ==
    /\ service.status = "none"
    /\ service' = buildService(chosen, operation)
    /\ UNCHANGED <<operation, requested, context, configs, noOpService, outcome,
                   stageMatches, pending, held, chosen>>
    /\ UNCHANGED storeVars
    /\ UNCHANGED repeatVars
    /\ UNCHANGED dockVars
    /\ UNCHANGED midVars

NextBuild == BuildService

SpecBuild == InitBuild /\ [][NextBuild]_vars

---------------------------------------------------------------------------
(* Claims about buildService, checked under SpecBuild *)

Built == service.status # "none"

\* C14: for a descriptor whose type name has a registered class, buildService
\* returns an AsynchronizerService wrapping that class exactly when the
\* descriptor's type is flagged synchronous_only or single_granule_requests,
\* and otherwise an instance of the registered class itself; either is
\* constructed with the given descriptor and operation.
C14_AsynchronizerExactlyWhenFlagged ==
    LET registered == IF chosen.type.name \in RegisteredTypeNames
                      THEN serviceTypesToServiceClasses(chosen.type.name)
                      ELSE ""
        flagged == \/ chosen.type.synchronous_only = "true"
                   \/ chosen.type.single_granule_requests = "true"
    IN (Built /\ registered # "") =>
          /\ service.status = "returned"
          /\ service.config = chosen.name
          /\ service.operation = operation
          /\ flagged => (service.class = "AsynchronizerService" /\ service.base = registered)
          /\ ~flagged => (service.class = registered /\ service.base = "")

\* a queue descriptor flagged single_granule_requests only was wrapped
C14_Witness ==
    /\ Built
    /\ chosen.type.name = "queue"
    /\ chosen.type.synchronous_only = "false"
    /\ chosen.type.single_granule_requests = "true"
    /\ service.class = "AsynchronizerService"
    /\ service.base = "MessageQueueService"

\* C15: whenever the descriptor's type name has no registered class,
\* buildService raises its NotFoundError ("Could not find an appropriate
\* service class ...") and constructs nothing, neither an adapter nor an
\* AsynchronizerService, whatever the two flags are.
C15_UnregisteredTypeRaises ==
    (Built /\ chosen.type.name \notin RegisteredTypeNames) =>
        /\ service.status = "threw"
        /\ service.error = "NotFoundError"
        /\ service.class = ""
        /\ service.base = ""

---------------------------------------------------------------------------
(* Submission through the local Docker adapter, for every descriptor name  *)
(* and granule list (cmr-granule-locator.ts:151-173)                       *)

\* a granule list of n granules
GranuleList(n) == [i \in 1..n |-> i]

\* The callback URLs operations are submitted with: on the local host, on
\* another host, on hosts whose name only contains the text "localhost", and
\* one with the text both in the host and in the path
CallbackUrls ==
    { <<"http://", "localhost", ":3000/service/x">>,
      <<"https://harmony.earthdata.nasa.gov/service/x">>,
      <<"http://", "localhost", ".localdomain:3000/service/x">>,
      <<"http://harmony-", "localhost", ".example.org:3000/service/x">>,
      <<"http://", "localhost", ":3000/service/", "localhost">> }

InitSubmit ==
    /\ InitRepeatIdle
    /\ InitMiddlewareIdle
    /\ InitChildren
    /\ adapterConfig \in [Ops -> { PodaacSubsetter, "harmony/example" }]
    /\ granules \in [Ops -> { GranuleList(n) : n \in 0..MaxGranules }]
    /\ callback \in [Ops -> CallbackUrls]
    /\ operation = IdleOperation
    /\ requested = IdleOperation
    /\ context = PlainContext
    /\ configs = <<>>
    /\ noOpService = NoOpInit
    /\ outcome = NoOutcome
    /\ stageMatches = <<>>
    /\ InitRequestsIdle
    /\ InitBuildIdle
    /\ InitStoreIdle

NextSubmit ==
    \/ \E o \in Ops : InvokeAsync(o)
    \/ \E o \in Ops : ErrorEvent(o)

SpecSubmit == InitSubmit /\ [][NextSubmit]_vars

\* C17: submitting an operation through the local Docker adapter leaves the
\* granule list of its sources as it was, whatever the descriptor's name;
\* only the callback may be rewritten.
C17_SubmitKeepsGranules ==
    [][\A o \in Ops :
          (child[o] = "unsubmitted" /\ child'[o] # "unsubmitted") =>
              granules'[o] = granules[o]]_vars

---------------------------------------------------------------------------
(* loadServiceConfigs and the default store (part_000:21-41, 369-373) *)

\* Values of a descriptor's `enabled` key in services.yml: absent, a YAML
\* boolean, or a string (quoted, or produced by an !Env substitution)
EnabledUndefined == [type |-> "undefined", value |-> ""]
EnabledValues ==
    { EnabledUndefined,
      [type |-> "boolean", value |-> "true"], [type |-> "boolean", value |-> "false"],
      [type |-> "string", value |-> "true"], [type |-> "string", value |-> "false"] }

\* Mutant: only the boolean false disables
IsEnabledUnlessBooleanFalse(enabled) ==
    enabled # [type |-> "boolean", value |-> "false"]

\* config.enabled !== false && config.enabled !== 'false' (line 40)
IsEnabled(enabled) ==
    /\ enabled # [type |-> "boolean", value |-> "false"]
    /\ enabled # [type |-> "string", value |-> "false"]

\* envConfigs[env.cmrEndpoint].filter(...): the descriptors kept, in order
loadServiceConfigs(entries) ==
    LET Keep(entry) == IsEnabled(entry.enabled)
        kept == SelectSeq(entries, Keep)
    IN [i \in DOMAIN kept |-> kept[i].config]

\* services.yml contents: descriptors of the catalog, each with an enabled key
ConfiguredLists ==
    UNION { { [i \in DOMAIN cfgs |-> [config |-> cfgs[i], enabled |-> flags[i]]] :
                flags \in [DOMAIN cfgs -> EnabledValues] } :
            cfgs \in ConfigLists }

\* The module before its require-time loadServiceConfigs() has run
InitStore ==
    /\ InitRepeatIdle
    /\ InitMiddlewareIdle
    /\ envConfigs \in ConfiguredLists
    /\ serviceConfigs = [loaded |-> FALSE, list |-> <<>>]
    /\ operation \in ConcurrentOperations
    /\ requested = operation
    /\ context = PlainContext
    /\ configs = <<>>
    /\ noOpService = NoOpInit
    /\ outcome = NoOutcome
    /\ stageMatches = <<>>
    /\ chosen = IdleConfig
    /\ service = NotBuilt
    /\ InitRequestsIdle
    /\ InitDockerIdle

\* loadServiceConfigs() at require time (line 55). `configs` is the default
\* value of chooseServiceConfig's parameter, the store.
LoadServiceConfigs ==
    /\ ~serviceConfigs.loaded
    /\ \E list \in { loadServiceConfigs(envConfigs) } :
          /\ serviceConfigs' = [loaded |-> TRUE, list |-> list]
          /\ configs' = list
    /\ UNCHANGED <<operation, requested, context, noOpService, outcome, stageMatches,
                   pending, held, chosen, service, envConfigs>>
    /\ UNCHANGED repeatVars
    /\ UNCHANGED dockVars
    /\ UNCHANGED midVars

\* chooseServiceConfig(operation, context) run over the default store
ChooseFromStore ==
    /\ serviceConfigs.loaded
    /\ ChooseServiceConfig

NextStore ==
    \/ LoadServiceConfigs
    \/ ChooseFromStore

SpecStore == InitStore /\ [][NextStore]_vars

---------------------------------------------------------------------------
(* A second call of chooseServiceConfig with the same arguments           *)
(* (part_000:369-391)                                                      *)

\* chooseServiceConfig(operation, context, configs) called again after the
\* first call returned or threw: the operation is the object the first call
\* left, noOpService the module-level object. firstMessage and firstFormat
\* keep what the first call left in noOpService.message and
\* operation.outputFormat.
ChooseAgain ==
    /\ outcome.status # "none"
    /\ repeat.status = "none"
    /\ \E r \in { chooseServiceConfig(operation, context, configs, noOpService.message) } :
          /\ operation' = r.operation
          /\ repeat' = [status |-> r.status, serviceConfig |-> r.serviceConfig,
                        error |-> r.error, firstMessage |-> noOpService.message,
                        firstFormat |-> operation.outputFormat]
          /\ noOpService' = IF r.serviceConfig = "noOpService"
                            THEN [noOpService EXCEPT !.hasMessage = TRUE,
                                                     !.message = r.message]
                            ELSE noOpService
          /\ stageMatches' = r.trace
    /\ UNCHANGED <<requested, context, configs, outcome, pending, held, chosen, service>>
    /\ UNCHANGED storeVars
    /\ UNCHANGED dockVars
    /\ UNCHANGED midVars

NextRepeat ==
    \/ ChooseServiceConfig
    \/ ChooseAgain

SpecRepeat == Init /\ [][NextRepeat]_vars

---------------------------------------------------------------------------
(* Granule locator middleware (cmr-granule-locator.ts:17-91) *)

\* Link relations are written as the sequence of their segments, each "/"
\* being a segment of its own: the relations of the CMR's Atom responses,
\* and others that end, or nearly end, the same way
DataRel == <<"http:", "/", "/", "esipfed.org", "/", "ns", "/", "fedsearch", "/", "1.1", "/", "data#">>
BrowseRel == <<"http:", "/", "/", "esipfed.org", "/", "ns", "/", "fedsearch", "/", "1.1", "/", "browse#">>
MetadataRel == <<"http:", "/", "/", "esipfed.org", "/", "ns", "/", "fedsearch", "/", "1.1", "/", "metadata#">>
OtherDataRel == <<"https:", "/", "/", "example.org", "/", "data#">>
BareDataRel == <<"/", "data#">>
UnslashedDataRel == <<"data#">>

\* str.endsWith(suffix): the string's last Len(suffix) segments are the
\* suffix; a string shorter than the suffix does not end with it
endsWith(str, suffix) ==
    /\ Len(suffix) <= Len(str)
    /\ SubSeq(str, Len(str) - Len(suffix) + 1, Len(str)) = suffix

\* rel.endsWith('/data#')
EndsWithData(rel) == endsWith(rel, <<"/", "data#">>)

\* g.rel.endsWith('/data#') && !g.inherited (line 71)
IsDataLink(link) == EndsWithData(link.rel) /\ ~link.inherited

\* granule.links.find(...): the first such link, <<>> for undefined
findDataLink(links) ==
    LET found == SelectSeq(links, IsDataLink)
    IN IF Len(found) > 0 THEN <<found[1]>> ELSE <<>>

\* the for loop of lines 69-75: one entry per granule that has such a link
granulesOf(atomGranules) ==
    LET HasLink(granule) == findDataLink(granule.links) # <<>>
        kept == SelectSeq(atomGranules, HasLink)
    IN [i \in DOMAIN kept |->
           [id |-> kept[i].id, name |-> kept[i].title,
            url |-> findDataLink(kept[i].links)[1].href]]

\* Mutant: the hit count of the last response replaces the total
LastHits(total, hits) == hits

\* operation.cmrHits += hits (line 64)
AddHits(total, hits) == total + hits

\* The link lists of a granule of a response
LinkLists ==
    { <<>>,
      <<[rel |-> DataRel, inherited |-> TRUE, href |-> "a"],
        [rel |-> MetadataRel, inherited |-> FALSE, href |-> "b"],
        [rel |-> UnslashedDataRel, inherited |-> FALSE, href |-> "c"]>>,
      <<[rel |-> BrowseRel, inherited |-> FALSE, href |-> "a"],
        [rel |-> OtherDataRel, inherited |-> FALSE, href |-> "b"]>>,
      <<[rel |-> BareDataRel, inherited |-> FALSE, href |-> "a"],
        [rel |-> DataRel, inherited |-> FALSE, href |-> "b"]>> }

\* The granule lists the CMR may answer a query for collection c with
AtomGranuleLists(c) ==
    UNION { { [i \in 1..n |-> [id |-> <<c, i>>, title |-> <<"title", c, i>>,
                               links |-> ls[i]]] :
                ls \in [1..n -> LinkLists] } :
            n \in 0..MaxAtomGranules }

\* What awaiting the query for collection c may yield: a response, or the
\* rejection of the query with a CmrError or with some other error
QueryOutcomes(c) ==
    { [error |-> "", hits |-> h, granules |-> gs] :
        h \in 0..MaxHits, gs \in AtomGranuleLists(c) }
    \cup { [error |-> e, hits |-> 0, granules |-> <<>>] : e \in { "CmrError", "Error" } }

NoArgument == "(no argument)"
ServerErrorFailed == "ServerError: Failed to query the CMR"

\* e instanceof RequestValidationError || e instanceof CmrError (line 85)
IsValidationOrCmrError(e) == e \in { "RequestValidationError", "CmrError" }

\* The calls of next made once `await Promise.all(queries)` has settled
\* (lines 83-90), e being what it rejected with, "" if it resolved: the
\* catch block returns after next(e) only in its if branch.
NextCallsAfter(e) ==
    IF e = "" THEN <<NoArgument>>
    ELSE IF IsValidationOrCmrError(e) THEN <<e>>
    ELSE <<ServerErrorFailed, NoArgument>>

Requests ==
    { [hasOperation |-> FALSE, sources |-> <<>>] }
    \cup { [hasOperation |-> TRUE, sources |-> cs] :
             cs \in InjSeqs(Collections, 1, Cardinality(Collections)) }

InitMiddleware ==
    /\ req \in Requests
    /\ mwPc = "notCalled"
    /\ queries = <<>>
    /\ cmrResponses = <<>>
    /\ cmrResponse = NoResponse
    /\ cmrHits = -1
    /\ sourceGranules = <<>>
    /\ rejection = ""
    /\ nextCalls = <<>>
    /\ InitRepeatIdle
    /\ InitBuildIdle
    /\ InitStoreIdle
    /\ InitRequestsIdle
    /\ InitDockerIdle
    /\ operation = IdleOperation
    /\ requested = IdleOperation
    /\ context = PlainContext
    /\ configs = <<>>
    /\ noOpService = NoOpInit
    /\ outcome = NoOutcome
    /\ stageMatches = <<>>

\* cmrGranuleLocator(req, res, next) up to `await Promise.all(queries)`: it
\* returns next() at once without operation; otherwise sources.map runs every
\* callback up to its own await, so every query is in flight.
CmrGranuleLocator ==
    /\ mwPc = "notCalled"
    /\ IF ~req.hasOperation
       THEN /\ nextCalls' = Append(nextCalls, NoArgument)
            /\ mwPc' = "done"
            /\ UNCHANGED <<queries, cmrResponses, cmrHits, sourceGranules>>
       ELSE /\ cmrHits' = 0
            /\ queries' = [i \in DOMAIN req.sources |-> "inflight"]
            /\ cmrResponses' = [i \in DOMAIN req.sources |-> NoResponse]
            /\ sourceGranules' = [i \in DOMAIN req.sources |-> <<>>]
            /\ mwPc' = "awaiting"
            /\ UNCHANGED nextCalls
    /\ UNCHANGED <<req, cmrResponse, rejection>>
    /\ UNCHANGED selVars
    /\ UNCHANGED dockVars

\* The query of source i settles and the rest of its callback runs (lines
\* 47-80), in one turn of the event loop: the response is assigned to the
\* shared cmrResponse and read back at once, the hits are added, the granule
\* list is built and assigned to the source, or the callback's promise
\* rejects. Promise.all rejects with the first rejection.
QueryCompletes(i) ==
    /\ i \in DOMAIN queries
    /\ queries[i] = "inflight"
    /\ \E r \in QueryOutcomes(req.sources[i]) :
          /\ cmrResponses' = [cmrResponses EXCEPT ![i] = r]
          /\ IF r.error # ""
             THEN /\ queries' = [queries EXCEPT ![i] = "rejected"]
                  /\ rejection' = IF rejection = "" THEN r.error ELSE rejection
                  /\ UNCHANGED <<cmrResponse, cmrHits, sourceGranules>>
             ELSE /\ cmrResponse' = r
                  /\ cmrHits' = AddHits(cmrHits, r.hits)
                  /\ IF Len(granulesOf(r.granules)) = 0
                     THEN /\ queries' = [queries EXCEPT ![i] = "rejected"]
                          /\ rejection' = IF rejection = "" THEN "RequestValidationError"
                                          ELSE rejection
                          /\ UNCHANGED sourceGranules
                     ELSE /\ queries' = [queries EXCEPT ![i] = "resolved"]
                          /\ sourceGranules' =
                                 [sourceGranules EXCEPT ![i] = granulesOf(r.granules)]
                          /\ UNCHANGED rejection
    /\ UNCHANGED <<req, mwPc, nextCalls>>
    /\ UNCHANGED selVars
    /\ UNCHANGED dockVars

\* `await Promise.all(queries)` settles and cmrGranuleLocator runs to its end
\* (lines 83-90); queries still in flight go on afterwards.
PromiseAllSettles ==
    /\ mwPc = "awaiting"
    /\ \/ rejection # ""
       \/ \A i \in DOMAIN queries : queries[i] = "resolved"
    /\ nextCalls' = nextCalls \o NextCallsAfter(rejection)
    /\ mwPc' = "done"
    /\ UNCHANGED <<req, queries, cmrResponses, cmrResponse, cmrHits, sourceGranules,
                   rejection>>
    /\ UNCHANGED selVars
    /\ UNCHANGED dockVars

NextMiddleware ==
    \/ CmrGranuleLocator
    \/ \E i \in 1..Cardinality(Collections) : QueryCompletes(i)
    \/ PromiseAllSettles

SpecMiddleware == InitMiddleware /\ [][NextMiddleware]_vars

---------------------------------------------------------------------------
(* Claims about the local Docker adapter, checked under SpecLocalDocker *)

\* the step in which the host runs the exit handler of operation o
ExitObserved(o) == child[o] = "exited" /\ child'[o] = "reaped"

\* C1: the exit of every child (any exit code or signal) is observed by the
\* host; when it is observed while the callback URL is still bound, the
\* adapter posts exactly one failure notification "Service request failed
\* with an unknown error." to it in that step, never posts a second one, and
\* the post is delivered.
C1_ExitWhileBoundNotifiesOnce ==
    /\ [][\A o \in Ops :
            (ExitObserved(o) /\ bound[o]) =>
                /\ CountFrom(Posted(o), "adapter") = 0
                /\ inflight'[o] = Append(inflight[o], AbortNotification)]_vars
    /\ [](\A o \in Ops : CountFrom(Posted(o), "adapter") <= 1)
    /\ \A o \in Ops : (child[o] = "exited") ~> (child[o] = "reaped")
    /\ \A o \in Ops :
          (CountFrom(inflight[o], "adapter") = 1)
              ~> (CountFrom(delivered[o], "adapter") = 1)

\* C2 (safety half): in every ordering of the child's post, the host's
\* handling of it and the host's observation of the exit, the callback URL of
\* an operation receives at most one notification.
C2_AtMostOneNotification ==
    \A o \in Ops : Len(delivered[o]) <= 1

\* C3: when the callback URL is no longer bound at the time the exit is
\* observed, the exit handler posts nothing, whatever the exit code.
C3_NoPostWhenUnbound ==
    [][\A o \in Ops :
          (ExitObserved(o) /\ ~bound[o]) =>
              /\ inflight' = inflight
              /\ delivered' = delivered]_vars

\* the child notified, the host handled it, the child then exited with a
\* failing code, and the exit handler has run: still one notification
C3_Witness ==
    \E o \in Ops :
        /\ child[o] = "reaped"
        /\ exitCode[o].code = 1
        /\ ~bound[o]
        /\ delivered[o] = <<ChildNotification>>
        /\ inflight[o] = <<>>

\* C4: once a failed launch has run its course (building the invocation
\* threw, or spawn reported an error and no further event is pending), no
\* exception has left _invokeAsync and exactly one notification was posted.
C4_LaunchFailureNotifiedOnce ==
    \A o \in Ops :
        child[o] = "gone" => ("submit" \notin thrown[o] /\ Len(Posted(o)) = 1)

---------------------------------------------------------------------------
(* Claims about the selection, checked under Spec *)

Called == outcome.status # "none"
ReturnedNoOp == outcome.status = "returned" /\ outcome.serviceConfig = "noOpService"
ReturnedReal == outcome.status = "returned" /\ outcome.serviceConfig # "noOpService"

Contains(text, piece) == \E i \in DOMAIN text : text[i] = piece

\* C5: with an empty candidate list chooseServiceConfig returns the no-op
\* descriptor and does not raise, whatever the operation and the context.
C5_EmptyCandidatesYieldNoOp ==
    (Called /\ configs = <<>>) => ReturnedNoOp

\* the acceptable media types the context lists (none on an absent context)
TypesOf(ctx) ==
    IF ctx.defined /\ ctx.hasMimeTypes THEN ctx.requestedMimeTypes ELSE <<>>

\* a candidate that meets every requirement of the request at once; the
\* operation's own format, when named, is the one to satisfy, else any of the
\* context's acceptable types
MeetsAll(config, op, ctx) ==
    /\ \A i \in DOMAIN op.sources : op.sources[i].collection \in config.collections
    /\ (\E i \in DOMAIN op.sources : op.sources[i].variables # <<>>) => config.variable
    /\ op.outputFormat # "" =>
          \E f \in Range(config.output_formats) : isMimeTypeAccepted(f, op.outputFormat)
    /\ (op.outputFormat = "" /\ TypesOf(ctx) # <<>>) =>
          \E f \in Range(config.output_formats), t \in Range(TypesOf(ctx)) :
              isMimeTypeAccepted(f, t)
    /\ op.hasBoundingRectangle => config.bbox

\* C6: if some candidate meets every requirement of the request at once,
\* chooseServiceConfig returns a real candidate, not the no-op descriptor.
C6_NoOpOnlyWhenNoBackendMatches ==
    (Called /\ \E i \in DOMAIN configs : MeetsAll(configs[i], requested, context))
        => ReturnedReal

\* does some candidate of live declare a format the type accepts
Satisfiable(live, type) ==
    \E i \in DOMAIN live : \E f \in Range(live[i].output_formats) :
        isMimeTypeAccepted(f, type)

\* C7: when the operation names no format and the context lists acceptable
\* types of which the candidates live after stage 2 can satisfy one, the
\* operation's format is resolved to a format that a live candidate declares
\* and that satisfies the earliest satisfiable type, and stage 3 returns
\* exactly the live candidates declaring the resolved format, in order.
C7_FormatResolution ==
    (/\ Called
     /\ requested.outputFormat = ""
     /\ Len(stageMatches) >= 2
     /\ \E k \in DOMAIN TypesOf(context) : Satisfiable(stageMatches[2], TypesOf(context)[k]))
    =>
    LET live == stageMatches[2]
        types == TypesOf(context)
        first == CHOOSE k \in DOMAIN types :
                    /\ Satisfiable(live, types[k])
                    /\ \A j \in 1..(k - 1) : ~Satisfiable(live, types[j])
        Declares(config) == operation.outputFormat \in Range(config.output_formats)
    IN /\ operation.outputFormat \in ConcreteFormats
       /\ isMimeTypeAccepted(operation.outputFormat, types[first])
       /\ \E i \in DOMAIN live : Declares(live[i])
       /\ Len(stageMatches) >= 3
       /\ stageMatches[3] = SelectSeq(live, Declares)

\* the example of the claim: types [image/png, */*], descriptors declaring
\* [image/tiff] and [image/png, image/tiff]
C7_Witness ==
    /\ Called
    /\ requested.outputFormat = ""
    /\ TypesOf(context) = <<"image/png", "*/*">>
    /\ Len(configs) = 2
    /\ configs[1].output_formats = <<"image/tiff">>
    /\ configs[2].output_formats = <<"image/png", "image/tiff">>
    /\ operation.outputFormat = "image/png"
    /\ Len(stageMatches) >= 3
    /\ stageMatches[3] = <<configs[2]>>

\* position of the descriptor called name in the list cfgs (0: not in it)
PositionIn(cfgs, name) ==
    IF \E i \in DOMAIN cfgs : cfgs[i].name = name
    THEN CHOOSE i \in DOMAIN cfgs : cfgs[i].name = name
    ELSE 0

\* sub is made of elements of whole, in the order they have in whole
KeepsOrder(sub, whole) ==
    /\ \A i \in DOMAIN sub : PositionIn(whole, sub[i].name) > 0
    /\ \A i, j \in DOMAIN sub :
          i < j => PositionIn(whole, sub[i].name) < PositionIn(whole, sub[j].name)

\* C8: when candidates survive all four stages, every stage kept the
\* relative order of the candidate list and the descriptor returned is the
\* survivor declared first in the candidate list.
C8_FirstSurvivorChosen ==
    (Called /\ Len(stageMatches) = NumFilters) =>
        LET survivors == { stageMatches[NumFilters][i].name :
                             i \in DOMAIN stageMatches[NumFilters] }
            firstPos == CHOOSE i \in DOMAIN configs :
                           /\ configs[i].name \in survivors
                           /\ \A j \in 1..(i - 1) : configs[j].name \notin survivors
        IN /\ KeepsOrder(stageMatches[1], configs)
           /\ \A k \in 1..(NumFilters - 1) : KeepsOrder(stageMatches[k + 1], stageMatches[k])
           /\ survivors # {}
           /\ outcome.status = "returned"
           /\ outcome.serviceConfig = configs[firstPos].name

\* two candidates survive every stage and the one declared first, which is
\* not the only survivor, is returned
C8_Witness ==
    /\ Called
    /\ Len(stageMatches) = NumFilters
    /\ Len(stageMatches[NumFilters]) = 2
    /\ Len(configs) = 2
    /\ outcome.serviceConfig = configs[1].name

\* C9: when the operation names variables and no candidate supports
\* variable subsetting, chooseServiceConfig returns the no-op descriptor with
\* an explanation containing "variable subsetting".
C9_VariableSubsettingExplained ==
    (/\ Called
     /\ \E i \in DOMAIN requested.sources : requested.sources[i].variables # <<>>
     /\ \A i \in DOMAIN configs : ~configs[i].variable)
    => (ReturnedNoOp /\ noOpService.hasMessage
        /\ Contains(noOpService.message, "variable subsetting"))

\* the caller asked for a concrete format: the operation named one, or the
\* context lists a type other than * and */*
ReformattingRequested ==
    \/ requested.outputFormat # ""
    \/ \E t \in Range(TypesOf(context)) : t # "*" /\ t # "*/*"

\* C10: the explanation of a fallback names variable subsetting, spatial
\* subsetting or reformatting only if the request asked for that option
\* (the condition the claim puts on every option it lets the explanation
\* name, whichever stage is taken to be the unmet cause).
C10_ExplanationNamesRequestedOnly ==
    ReturnedNoOp =>
        /\ Contains(noOpService.message, "variable subsetting") =>
              requiresVariableSubsetting(requested)
        /\ Contains(noOpService.message, "reformatting to ") =>
              ReformattingRequested
        /\ Contains(noOpService.message, "spatial subsetting") =>
              requiresSpatialSubsetting(requested)

---------------------------------------------------------------------------
(* Frame of the selection, checked under Spec *)

\* the step in which chooseServiceConfig is called and returns or throws
SelectionStep == outcome.status = "none" /\ outcome'.status # "none"

\* C11: a call to chooseServiceConfig changes no state other than
\* operation.outputFormat: not the candidate list, not the context, not the
\* no-op descriptor object, and no other field of the operation.
C11_SelectionChangesOnlyOutputFormat ==
    [][SelectionStep =>
          /\ configs' = configs
          /\ context' = context
          /\ noOpService' = noOpService
          /\ operation'.sources = operation.sources
          /\ operation'.hasBoundingRectangle = operation.hasBoundingRectangle]_vars

---------------------------------------------------------------------------
(* Claims about errors raised by a stage, checked under SpecMalformed *)

\* C13: an error a stage raises that is not UnsupportedOperation (here the
\* TypeError of reading the collections of a descriptor that has none) leaves
\* chooseServiceConfig as that same error: no descriptor is returned, and the
\* no-op descriptor's explanation is as it was before the call.
C13_OtherErrorsPropagate ==
    (Called /\ \E i \in DOMAIN configs : isCollectionMatchRaises(requested, configs[i]))
    => /\ outcome.status = "threw"
       /\ outcome.error = CollectionsTypeError
       /\ outcome.serviceConfig = ""
       /\ noOpService = NoOpInit

\* the call was made on a list whose second descriptor is the malformed one,
\* with a context that lists acceptable types, and it raised the stage's error
C13_Witness ==
    /\ Called
    /\ Len(configs) = 2
    /\ configs[2] = NoCollectionsDescriptor
    /\ context.defined /\ context.hasMimeTypes
    /\ outcome.status = "threw"
    /\ outcome.error = CollectionsTypeError

---------------------------------------------------------------------------
(* Claims about single stages and the result, checked under Spec *)

\* C16: when the operation names no output format and the context lists no
\* acceptable media types or is absent, the output-format stage (stage 3),
\* once reached, signals nothing and returns the candidates it was given, in
\* the same order, and the operation's output format stays unset.
C16_FormatStageNoOp ==
    (Called /\ requested.outputFormat = "" /\ TypesOf(context) = <<>>) =>
        /\ operation.outputFormat = ""
        /\ Len(stageMatches) >= 2 =>
              (Len(stageMatches) >= 3 /\ stageMatches[3] = stageMatches[2])

\* no format named, absent context, and two candidates went through stage 3
C16_Witness ==
    /\ Called
    /\ requested.outputFormat = ""
    /\ ~context.defined
    /\ Len(stageMatches) >= 3
    /\ Len(stageMatches[2]) = 2
    /\ stageMatches[3] = stageMatches[2]
    /\ operation.outputFormat = ""

---------------------------------------------------------------------------
(* Claims about the store, checked under SpecStore *)

Disabled(entry) ==
    \/ entry.enabled = [type |-> "boolean", value |-> "false"]
    \/ entry.enabled = [type |-> "string", value |-> "false"]

\* C18: a configured descriptor whose enabled key is the boolean false or the
\* string "false" is not in the loaded store and is never what
\* chooseServiceConfig returns over the default store; every other configured
\* descriptor is in the store, in the order services.yml gives.
C18_DisabledExcludedFromStore ==
    serviceConfigs.loaded =>
        LET configured == [i \in DOMAIN envConfigs |-> envConfigs[i].config]
            stored == serviceConfigs.list
        IN /\ \A i \in DOMAIN envConfigs :
                 Disabled(envConfigs[i]) <=> PositionIn(stored, configured[i].name) = 0
           /\ KeepsOrder(stored, configured)
           /\ configs = stored
           /\ \A i \in DOMAIN envConfigs :
                 (Called /\ Disabled(envConfigs[i]))
                     => outcome.serviceConfig # configured[i].name

\* the first configured descriptor is disabled by the string "false" and
\* would have served the request; the second one was returned
C18_Witness ==
    /\ serviceConfigs.loaded
    /\ Called
    /\ Len(envConfigs) = 2
    /\ envConfigs[1].enabled = [type |-> "string", value |-> "false"]
    /\ MeetsAll(envConfigs[1].config, requested, context)
    /\ outcome.status = "returned"
    /\ outcome.serviceConfig = envConfigs[2].config.name

---------------------------------------------------------------------------
(* Soundness of the result, checked under Spec *)

\* a candidate that satisfies what the operation, as the call left it, asks
SoundFor(config, op) ==
    /\ \A i \in DOMAIN op.sources : op.sources[i].collection \in config.collections
    /\ (\E i \in DOMAIN op.sources : op.sources[i].variables # <<>>) => config.variable
    /\ op.outputFormat # "" =>
          \E f \in Range(config.output_formats) : isMimeTypeAccepted(f, op.outputFormat)
    /\ op.hasBoundingRectangle => config.bbox

\* C19: for every operation, context and candidate list, chooseServiceConfig
\* returns the no-op descriptor or a member of the candidate list, and a
\* returned member serves every collection of the sources, supports variable
\* subsetting if a source names variables, declares a format the resolved
\* output format accepts if one is set, and supports spatial subsetting if
\* the operation has a bounding box.
C19_ResultSound ==
    Called =>
        /\ outcome.status = "returned"
        /\ \/ outcome.serviceConfig = "noOpService"
           \/ \E i \in DOMAIN configs :
                 /\ configs[i].name = outcome.serviceConfig
                 /\ SoundFor(configs[i], operation)

---------------------------------------------------------------------------
(* Registration of the adapters, checked under SpecBuild *)

\* the type names of the four execution mechanisms: synchronous HTTP
\* (HttpService), local container (LocalDockerService), managed workflow
\* (ArgoService) and message queue (MessageQueueService)
MechanismTypeNames == { "http", "docker", "argo", "queue" }

\* C20: for a descriptor whose type names one of the four execution
\* mechanisms, buildService finds a registered class and returns an adapter
\* instead of raising its NotFoundError.
C20_EveryMechanismRegistered ==
    (Built /\ chosen.type.name \in MechanismTypeNames) =>
        /\ service.status = "returned"
        /\ service.class # ""

---------------------------------------------------------------------------
(* Claims about wildcard types, a format named beforehand and a repeated   *)
(* call, checked under Spec and SpecRepeat                                 *)

\* the request accepts only * or */*, and its operation named no format
OnlyWildcardsRequested ==
    /\ requested.outputFormat = ""
    /\ TypesOf(context) # <<>>
    /\ \A t \in Range(TypesOf(context)) : t \in { "*", "*/*" }

\* C21: when the only acceptable media types are * or */* and the operation
\* named no format before the selection, the explanation of a fallback does
\* not list "reformatting to ..." whichever stage failed, and it reads "no
\* operations can be performed on <collections>" when neither variable nor
\* spatial subsetting was requested.
C21_WildcardIsNotReformatting ==
    (ReturnedNoOp /\ OnlyWildcardsRequested) =>
        /\ ~Contains(noOpService.message, "reformatting to ")
        /\ (~requiresVariableSubsetting(requested) /\ ~requiresSpatialSubsetting(requested))
              => noOpService.message =
                    <<"no operations can be performed on ">>
                    \o listToText([i \in DOMAIN requested.sources |->
                                      <<requested.sources[i].collection>>])

\* C22: when the operation names an output format before the selection,
\* chooseServiceConfig leaves that format as it is, and the output-format
\* stage, whatever the context lists, keeps exactly the candidates live after
\* stage 2 that declare a format the operation's format accepts, in order,
\* or signals unsupported (the no-op descriptor is returned) if none does.
C22_NamedFormatKept ==
    (Called /\ requested.outputFormat # "") =>
        /\ operation.outputFormat = requested.outputFormat
        /\ Len(stageMatches) >= 2 =>
              LET Declares(config) ==
                      \E f \in Range(config.output_formats) :
                          isMimeTypeAccepted(f, requested.outputFormat)
                  kept == SelectSeq(stageMatches[2], Declares)
              IN IF kept = <<>>
                 THEN Len(stageMatches) = 2 /\ ReturnedNoOp
                 ELSE Len(stageMatches) >= 3 /\ stageMatches[3] = kept

\* the operation names image/tiff, the context prefers image/png, and of the
\* two candidates live after stage 2 only the one declaring image/tiff passed
C22_Witness ==
    /\ Called
    /\ requested.outputFormat = "image/tiff"
    /\ TypesOf(context) = <<"image/png">>
    /\ Len(stageMatches) >= 3
    /\ Len(stageMatches[2]) = 2
    /\ Len(stageMatches[3]) = 1
    /\ stageMatches[3][1].output_formats = <<"image/tiff">>
    /\ operation.outputFormat = "image/tiff"

\* C23: a second call of chooseServiceConfig with the operation as the first
\* call left it, the same context and the same candidate list returns the
\* descriptor the first call returned, with the same explanation when that is
\* the no-op descriptor, and leaves the operation's output format as the
\* first call left it.
C23_SecondCallIdempotent ==
    (outcome.status = "returned" /\ repeat.status # "none") =>
        /\ repeat.status = "returned"
        /\ repeat.serviceConfig = outcome.serviceConfig
        /\ repeat.serviceConfig = "noOpService" => noOpService.message = repeat.firstMessage
        /\ operation.outputFormat = repeat.firstFormat

\* both calls fell back, after the first one had resolved the output format
\* from the context's acceptable types
C23_Witness ==
    /\ ReturnedNoOp
    /\ repeat.status = "returned"
    /\ repeat.serviceConfig = "noOpService"
    /\ requested.outputFormat = ""
    /\ repeat.firstFormat # ""
    /\ operation.outputFormat = repeat.firstFormat
    /\ noOpService.message = repeat.firstMessage

---------------------------------------------------------------------------
(* Claims about the granule locator, checked under SpecMiddleware *)

\* what the one call of next is to be given on the path the request took
ExpectedNextArgument ==
    IF ~req.hasOperation \/ rejection = "" THEN NoArgument
    ELSE IF rejection \in { "RequestValidationError", "CmrError" } THEN rejection
    ELSE ServerErrorFailed

\* C24: on every path the granule locator calls next exactly once: without
\* argument when there is no operation or every query succeeded, with the
\* error when a query raised a RequestValidationError or a CmrError, and with
\* ServerError('Failed to query the CMR') when a query raised anything else.
C24_NextCalledExactlyOnce ==
    /\ Len(nextCalls) <= 1
    /\ mwPc = "done" => nextCalls = <<ExpectedNextArgument>>

\* every query of the request has succeeded
AllQueriesSucceeded ==
    /\ mwPc # "notCalled"
    /\ req.hasOperation
    /\ \A i \in DOMAIN queries : queries[i] = "resolved"

RECURSIVE SumOfHits(_, _)
SumOfHits(responses, n) ==
    IF n = 0 THEN 0 ELSE responses[n].hits + SumOfHits(responses, n - 1)

\* the granules of a response that have a data link that is not inherited
WithOwnDataLink(response) ==
    LET Has(granule) ==
            \E k \in DOMAIN granule.links :
                /\ Len(granule.links[k].rel) >= 2
                /\ granule.links[k].rel[Len(granule.links[k].rel) - 1] = "/"
                /\ granule.links[k].rel[Len(granule.links[k].rel)] = "data#"
                /\ ~granule.links[k].inherited
    IN SelectSeq(response.granules, Has)

\* C25: with the queries of all sources in flight together and completing in
\* any order, once all have succeeded every source has a non-empty granule
\* list with one entry, in order, per granule of the response to its own
\* collection's query that has a non-inherited data link, and
\* operation.cmrHits is the sum of the hit counts of all the responses.
C25_ConcurrentQueriesKeptApart ==
    AllQueriesSucceeded =>
        /\ \A i \in DOMAIN req.sources :
              LET own == WithOwnDataLink(cmrResponses[i])
              IN /\ Len(sourceGranules[i]) > 0
                 /\ Len(sourceGranules[i]) = Len(own)
                 /\ \A k \in DOMAIN own :
                       /\ sourceGranules[i][k].id = own[k].id
                       /\ sourceGranules[i][k].id[1] = req.sources[i]
        /\ cmrHits = SumOfHits(cmrResponses, Len(cmrResponses))

\* two sources; the query of the second completed first; one granule of the
\* first response has no data link of its own and is left out
C25_Witness ==
    /\ AllQueriesSucceeded
    /\ Len(req.sources) = 2
    /\ cmrResponse = cmrResponses[1]
    /\ cmrResponses[1].hits = 2
    /\ cmrResponses[2].hits = 1
    /\ cmrHits = 3
    /\ Len(cmrResponses[1].granules) = 2
    /\ Len(sourceGranules[1]) = 1
    /\ Len(sourceGranules[2]) >= 1

============================================================================
